---- MODULE Spec2Model ----
(***************************************************************************)
(* train.py of latent-prediction-pytorch: a single script that parses its  *)
(* options, creates the output directory, seeds the random sources, picks  *)
(* a dataset, builds a generator and trains it on a rank-derived encoding  *)
(* of each image, writing sample images every 100th batch and one          *)
(* checkpoint per epoch.                                                   *)
(*                                                                         *)
(* Spec          the run of the script, statement by statement; tensors    *)
(*               are followed by their shapes.                             *)
(* SpecTransform the noise/target transform of lines 199-203 on the        *)
(*               values of one image.                                      *)
(*                                                                         *)
(* Python's None is the empty tuple <<>> and a value v is <<v>>; strings   *)
(* that the code inspects (the dataset kind, file names) are tuples of     *)
(* characters or pieces.  Indices are 0-based as in the source.            *)
(***************************************************************************)
EXTENDS Integers, Sequences, FiniteSets, TLC

VARIABLES
    pc,         \* the statement the script is at
    opt,        \* the argparse namespace (line 42), mutated by lines 51 and 182
    parsed,     \* the option values as parse_args returned them (line 42)
    outdir,     \* what the file system holds at opt.outf
    mkErr,      \* the exception os.makedirs raised, if any
    seeded,     \* the seed given to random.seed / torch.manual_seed
    error,      \* the uncaught exception that ended the run, if any
    dataset,    \* the dataset object, unbound until a branch of 64-107 binds it
    nc,         \* the channel count the chosen branch sets
    dataloader, \* the number of batches the DataLoader yields per epoch
    netG,       \* the generator's layers
    epoch, i,   \* the two loop counters
    steps,      \* optimizer steps taken so far
    output,     \* the shapes through the generator in the last forward pass
    written,    \* every file write so far, in order
    logged,     \* every loss line printed so far, in order
    tpc,        \* the line of the transform the zoomed-in batch is at
    input,      \* one image of the batch
    r2, rand,   \* the fixed permutation and lookup table (lines 185-186)
    tie,        \* how the unstable sort orders equal keys
    picked,     \* t after line 200
    means,      \* t after line 201
    order,      \* t after line 202
    t           \* t after line 203, the generator's input

vars == <<pc, opt, parsed, outdir, mkErr, seeded, error, dataset, nc, dataloader,
          netG, epoch, i, steps, output, written, logged, tpc, input, r2, rand, tie, picked, means, order, t>>

runVars == <<pc, opt, parsed, outdir, mkErr, seeded, error, dataset, nc, dataloader,
             netG, epoch, i, steps, output, written, logged>>

transformVars == <<tpc, input, r2, rand, tie, picked, means, order, t>>

NONE == <<>>

Some(v) == <<v>>

IsNone(x) == x = <<>>

Get(x) == x[1]

-----------------------------------------------------------------------------
(* Bounds of the model *)

MaxNiter == 2

MaxNgf == 2

MaxData == 201

(* Program constants *)

z_res == 4

LogEvery == 100

SeedLo == 1

SeedHi == 10000

BatchSizeDefault == 64

FakeDataSize == 1000

ImageSizeDefault == 64

-----------------------------------------------------------------------------
(* Strings the code inspects *)

UpperCase == <<"A","B","C","D","E","F","G","H","I","J","K","L","M",
               "N","O","P","Q","R","S","T","U","V","W","X","Y","Z">>

LowerCase == <<"a","b","c","d","e","f","g","h","i","j","k","l","m",
               "n","o","p","q","r","s","t","u","v","w","x","y","z">>

lowerChar(c) ==
    IF \E k \in 1..26 : UpperCase[k] = c
    THEN LowerCase[CHOOSE k \in 1..26 : UpperCase[k] = c]
    ELSE c

\* str.lower()
lower(s) == [k \in 1..Len(s) |-> lowerChar(s[k])]

imagenet == <<"i","m","a","g","e","n","e","t">>

folder == <<"f","o","l","d","e","r">>

lfw == <<"l","f","w">>

lsun == <<"l","s","u","n">>

cifar10 == <<"c","i","f","a","r","1","0">>

mnist == <<"m","n","i","s","t">>

fake == <<"f","a","k","e">>

\* the kinds some branch of lines 64-107 builds a dataset for
RecognisedKinds == {imagenet, folder, lfw, lsun, cifar10, mnist, fake}

\* values of --dataset the runs are started with: the recognised kinds, two
\* that differ from one only in letter case, and one unrelated string
DatasetArgs ==
    RecognisedKinds \cup
    { <<"F","a","k","e">>, <<"M","N","I","S","T">>, <<"s","v","h","n">> }

DigitChars == <<"0","1","2","3","4","5","6","7","8","9">>

RECURSIVE Digits(_)
\* '%d' of a natural number
Digits(n) ==
    IF n < 10 THEN <<DigitChars[n + 1]>>
    ELSE Digits(n \div 10) \o <<DigitChars[(n % 10) + 1]>>

RECURSIVE ZeroPad(_, _)
ZeroPad(s, width) == IF Len(s) >= width THEN s ELSE ZeroPad(<<"0">> \o s, width)

\* '%03d'
Fmt03d(n) == ZeroPad(Digits(n), 3)

\* '%s/real_samples.png' % opt.outf
RealSamplesName(outf) == <<outf, "/real_samples.png">>

\* '%s/fake_samples_epoch_%03d_%03d.png' % (opt.outf, epoch, i)
FakeSamplesName(outf, e, b) ==
    <<outf, "/fake_samples_epoch_">> \o Fmt03d(e) \o <<"_">> \o Fmt03d(b) \o <<".png">>

\* '%s/netG_epoch_%d.pth' % (opt.outf, epoch)
CheckpointName(outf, e) == <<outf, "/netG_epoch_">> \o Digits(e) \o <<".pth">>

-----------------------------------------------------------------------------
(* The run: lines 42-62 *)

OutdirStates == {"absent", "dir", "file", "denied", "parentfile"}

ImageSizes == {8, 32, ImageSizeDefault}

BatchSizes == {4, BatchSizeDefault}

DataLens == {0, MaxData}

Opts ==
    [ dataset    : DatasetArgs,
      dataroot   : {NONE, Some("data")},
      batchSize  : BatchSizes,
      imageSize  : ImageSizes,
      ngf        : 1..MaxNgf,
      niter      : 0..MaxNiter,
      dry_run    : BOOLEAN,
      outf       : {"out"},
      manualSeed : {NONE, Some(7)},
      workers    : {2},
      lr         : {"0.0002"},
      beta1      : {"0.5"},
      cuda       : {FALSE},
      ngpu       : {1},
      netG       : {""},
      classes    : {"bedroom"} ]

Raise(type, line) == Some([type |-> type, line |-> line])

Failed == pc = "failed"

\* the exception os.makedirs(opt.outf) raises, by what the path holds
MakedirsRaises(d) ==
    CASE d = "absent"     -> NONE
      [] d = "dir"        -> Some("FileExistsError")
      [] d = "file"       -> Some("FileExistsError")
      [] d = "denied"     -> Some("PermissionError")
      [] d = "parentfile" -> Some("NotADirectoryError")

\* the subclasses of OSError among the exceptions of the model
OSErrors == {"FileExistsError", "PermissionError", "NotADirectoryError",
             "FileNotFoundError"}

\* except OSError: pass
Suppressed(e) == e \in OSErrors

\* lines 45-48
Makedirs ==
    /\ pc = "makedirs"
    /\ LET r == MakedirsRaises(outdir) IN
        /\ mkErr' = r
        /\ outdir' = IF IsNone(r) THEN "dir" ELSE outdir
        /\ IF IsNone(r) \/ Suppressed(Get(r))
           THEN pc' = "seed" /\ error' = error
           ELSE pc' = "failed" /\ error' = Raise(Get(r), 46)
    /\ UNCHANGED <<opt, parsed, seeded, dataset, nc, dataloader, netG, epoch, i,
                   steps, output, written, logged,
                   transformVars>>

\* what random.randint(1, 10000) may return, at the ends of its range
RandomSeeds == {SeedLo, SeedHi}

\* lines 50-54
Seed ==
    /\ pc = "seed"
    /\ \E s \in RandomSeeds :
        /\ opt' = IF IsNone(opt.manualSeed) THEN [opt EXCEPT !.manualSeed = Some(s)]
                  ELSE opt
        /\ seeded' = opt'.manualSeed
    /\ pc' = "check_dataroot"
    /\ UNCHANGED <<parsed, outdir, mkErr, error, dataset, nc, dataloader, netG, epoch,
                   i, steps, output, written, logged,
                   transformVars>>

\* line 61 without the lower(): the kind compared as given
DatarootMissingCaseSensitive(o) == IsNone(o.dataroot) /\ o.dataset # fake

\* the condition of line 61
DatarootMissing(o) == IsNone(o.dataroot) /\ lower(o.dataset) # fake

\* lines 61-62
CheckDataroot ==
    /\ pc = "check_dataroot"
    /\ IF DatarootMissing(opt)
       THEN pc' = "failed" /\ error' = Raise("ValueError", 62)
       ELSE pc' = "select_dataset" /\ error' = error
    /\ UNCHANGED <<opt, parsed, outdir, mkErr, seeded, dataset, nc, dataloader, netG,
                   epoch, i, steps, output, written, logged,
                   transformVars>>

-----------------------------------------------------------------------------
(* Dataset selection and the data loader: lines 64-111 *)

\* the chain with its last `elif opt.dataset == 'fake'` written as `else`
SelectBranchElse(kind) ==
    CASE kind \in {imagenet, folder, lfw} -> "folder"
      [] kind = lsun                      -> "lsun"
      [] kind = cifar10                   -> "cifar10"
      [] kind = mnist                     -> "mnist"
      [] OTHER                            -> "fake"

\* the branch of the if/elif chain of lines 64-104 a kind takes, "none" when
\* no condition holds (the comparisons are case-sensitive)
SelectBranch(kind) ==
    CASE kind \in {imagenet, folder, lfw} -> "folder"
      [] kind = lsun                      -> "lsun"
      [] kind = cifar10                   -> "cifar10"
      [] kind = mnist                     -> "mnist"
      [] kind = fake                      -> "fake"
      [] OTHER                            -> "none"

\* the class each branch instantiates
DatasetClass(branch) ==
    CASE branch = "folder"  -> "ImageFolder"
      [] branch = "lsun"    -> "LSUN"
      [] branch = "cifar10" -> "CIFAR10"
      [] branch = "mnist"   -> "MNIST"
      [] branch = "fake"    -> "FakeData"

\* the nc each branch sets
Channels(branch) == IF branch = "mnist" THEN 1 ELSE 3

\* the length of the dataset a branch builds: FakeData's default size; what
\* the data path holds for the others, where only an LSUN database can be
\* opened empty
DatasetLens(branch) ==
    CASE branch = "fake" -> {FakeDataSize}
      [] branch = "lsun" -> DataLens
      [] OTHER           -> DataLens \ {0}

\* lines 64-109: the branches, then `assert dataset`; an unbound name is a
\* NameError, a dataset of length 0 is falsy
SelectDataset ==
    /\ pc = "select_dataset"
    /\ LET branch == SelectBranch(opt.dataset) IN
       IF branch # "none"
       THEN \E n \in DatasetLens(branch) :
              /\ dataset' = Some([class |-> DatasetClass(branch), len |-> n])
              /\ nc' = Channels(branch)
              /\ IF n = 0
                 THEN pc' = "failed" /\ error' = Raise("AssertionError", 109)
                 ELSE pc' = "dataloader" /\ error' = error
       ELSE /\ pc' = "failed"
            /\ error' = Raise("NameError", 109)
            /\ UNCHANGED <<dataset, nc>>
    /\ UNCHANGED <<opt, parsed, outdir, mkErr, seeded, dataloader, netG, epoch, i,
                   steps, output, written, logged,
                   transformVars>>

\* len(DataLoader(dataset, batch_size)): the batches of one epoch
NumBatches(len, batchSize) == (len + batchSize - 1) \div batchSize

\* lines 110-111
BuildLoader ==
    /\ pc = "dataloader"
    /\ dataloader' = Some(NumBatches(Get(dataset).len, opt.batchSize))
    /\ pc' = "model"
    /\ UNCHANGED <<opt, parsed, outdir, mkErr, seeded, error, dataset, nc, netG, epoch,
                   i, steps, output, written, logged,
                   transformVars>>

-----------------------------------------------------------------------------
(* The generator: lines 113-179 *)

\* nn.ConvTranspose2d(cin, cout, kernel, stride, padding, bias=False)
ConvTranspose2d(cin, cout, kernel, stride, padding) ==
    [op |-> "ConvTranspose2d", cin |-> cin, cout |-> cout, kernel |-> kernel,
     stride |-> stride, padding |-> padding]

BatchNorm2d(ch) == [op |-> "BatchNorm2d", ch |-> ch]

\* lines 131-157, with ngf and nc as the script has them at line 163
Generator(ngf, nch) ==
    << [op |-> "Unflatten", to |-> <<z_res ^ 2, 1, 1>>],
       ConvTranspose2d(z_res ^ 2, ngf * 8, 4, 1, 0),
       BatchNorm2d(ngf * 8),
       [op |-> "ReLU"],
       ConvTranspose2d(ngf * 8, ngf * 4, 4, 2, 1),
       BatchNorm2d(ngf * 4),
       [op |-> "ReLU"],
       ConvTranspose2d(ngf * 4, ngf * 2, 4, 2, 1),
       BatchNorm2d(ngf * 2),
       [op |-> "ReLU"],
       ConvTranspose2d(ngf * 2, ngf, 4, 2, 1),
       BatchNorm2d(ngf),
       [op |-> "ReLU"],
       ConvTranspose2d(ngf, nch, 4, 2, 1),
       [op |-> "Tanh"] >>

\* the output size with the padding taken off one side only
ConvTransposeOutOnePad(n, kernel, stride, padding) ==
    (n - 1) * stride - padding + kernel

\* the output size of a transposed convolution along one spatial axis
ConvTransposeOut(n, kernel, stride, padding) ==
    (n - 1) * stride - 2 * padding + kernel

Product(shape) ==
    LET RECURSIVE P(_)
        P(k) == IF k = 0 THEN 1 ELSE shape[k] * P(k - 1)
    IN P(Len(shape))

\* the per-sample shape a layer gives for a per-sample shape, NONE when the
\* layer rejects it
Apply(layer, shape) ==
    CASE layer.op = "Unflatten" ->
            IF Len(shape) = 1 /\ shape[1] = Product(layer.to)
            THEN Some(layer.to) ELSE NONE
      [] layer.op = "ConvTranspose2d" ->
            IF Len(shape) = 3 /\ shape[1] = layer.cin
            THEN Some(<<layer.cout,
                        ConvTransposeOut(shape[2], layer.kernel, layer.stride, layer.padding),
                        ConvTransposeOut(shape[3], layer.kernel, layer.stride, layer.padding)>>)
            ELSE NONE
      [] layer.op = "BatchNorm2d" ->
            IF Len(shape) = 3 /\ shape[1] = layer.ch THEN Some(shape) ELSE NONE
      [] OTHER -> Some(shape)

RECURSIVE Forward(_, _, _)
\* nn.Sequential: the shapes after each of the layers from the k-th on, for
\* input `shape`; it ends early at a layer that rejects its input
Forward(layers, k, shape) ==
    IF k > Len(layers) THEN <<>>
    ELSE LET r == Apply(layers[k], shape) IN
         IF IsNone(r) THEN <<NONE>>
         ELSE <<r>> \o Forward(layers, k + 1, Get(r))

\* lines 113-179: the model is built from ngf and the branch's nc
BuildModel ==
    /\ pc = "model"
    /\ netG' = Some(Generator(opt.ngf, nc))
    /\ pc' = "dry_run"
    /\ UNCHANGED <<opt, parsed, outdir, mkErr, seeded, error, dataset, nc, dataloader,
                   epoch, i, steps, output, written, logged,
                   transformVars>>

\* lines 181-182 left out
NiterOverrideNever(o) == o

\* line 182 without the test of line 181
NiterOverrideAlways(o) == [o EXCEPT !.niter = 1]

\* lines 181-182
NiterOverride(o) == IF o.dry_run THEN [o EXCEPT !.niter = 1] ELSE o

\* lines 181-186: the override, then the fixed artifacts of the transform
DryRunOverride ==
    /\ pc = "dry_run"
    /\ opt' = NiterOverride(opt)
    /\ pc' = "epoch"
    /\ UNCHANGED <<parsed, outdir, mkErr, seeded, error, dataset, nc, dataloader, netG,
                   epoch, i, steps, output, written, logged,
                   transformVars>>

-----------------------------------------------------------------------------
(* The training loop: lines 188-234 *)

\* the per-sample shape of data[0]: every branch's transform gives square
\* images of the configured size with the branch's channel count
InputShape(o, nch) == <<nch, o.imageSize, o.imageSize>>

\* len(r2): the entries line 200 picks from each flattened image
NumPicked == (z_res ^ 2) ^ 2

\* the width of t after the reduction of line 201, chunks of z_res**2
TransformWidth == NumPicked \div (z_res ^ 2)

\* torch's broadcasting rule for two shapes of the same rank
Broadcastable(a, b) ==
    /\ Len(a) = Len(b)
    /\ \A k \in 1..Len(a) : a[k] = b[k] \/ a[k] = 1 \/ b[k] = 1

\* what lines 190-208 raise for a batch, NONE when the step is taken: r2
\* holds the indices 0..NumPicked-1, so the flattened image must be that long;
\* L1Loss needs output and input of broadcastable shapes
BatchRaises(o, nch, out) ==
    IF Product(InputShape(o, nch)) < NumPicked THEN Raise("IndexError", 200)
    ELSE IF IsNone(out[Len(out)]) THEN Raise("RuntimeError", 205)
    ELSE IF ~Broadcastable(Get(out[Len(out)]), InputShape(o, nch))
         THEN Raise("RuntimeError", 206)
    ELSE NONE

\* what writing a file under opt.outf raises, by what the path holds
WriteRaises(d) ==
    CASE d = "dir"    -> NONE
      [] d = "absent" -> Some("FileNotFoundError")
      [] d = "denied" -> Some("FileNotFoundError")
      [] OTHER        -> Some("NotADirectoryError")

Write(name) == [name |-> name, epoch |-> epoch, i |-> i, at |-> steps]

\* line 188: the next value of range(opt.niter)
EpochStart ==
    /\ pc = "epoch"
    /\ epoch < opt.niter
    /\ i' = 0
    /\ pc' = "batch"
    /\ UNCHANGED <<opt, parsed, outdir, mkErr, seeded, error, dataset, nc, dataloader,
                   netG, epoch, steps, output, written, logged,
                   transformVars>>

\* line 188: range(opt.niter) is exhausted and the script ends
LoopEnd ==
    /\ pc = "epoch"
    /\ epoch >= opt.niter
    /\ pc' = "done"
    /\ UNCHANGED <<opt, parsed, outdir, mkErr, seeded, error, dataset, nc, dataloader,
                   netG, epoch, i, steps, output, written, logged,
                   transformVars>>

\* lines 189-208: the loader yields batch i; transform, forward pass, loss,
\* backward pass and optimizer step
TrainBatch ==
    /\ pc = "batch"
    /\ i < Get(dataloader)
    /\ LET out == Forward(Get(netG), 1, <<TransformWidth>>)
           r   == BatchRaises(opt, nc, out)
       IN
        IF IsNone(r)
        THEN /\ output' = out
             /\ steps' = steps + 1
             /\ pc' = "periodic"
             /\ error' = error
        ELSE /\ output' = IF Get(r).line = 200 THEN output ELSE out
             /\ pc' = "failed"
             /\ error' = r
             /\ steps' = steps
    /\ UNCHANGED <<opt, parsed, outdir, mkErr, seeded, dataset, nc, dataloader, netG,
                   epoch, i, written, logged,
                   transformVars>>

\* line 189: the loader is exhausted, the epoch's inner loop ends
LoaderExhausted ==
    /\ pc = "batch"
    /\ i >= Get(dataloader)
    /\ pc' = "checkpoint"
    /\ UNCHANGED <<opt, parsed, outdir, mkErr, seeded, error, dataset, nc, dataloader,
                   netG, epoch, i, steps, output, written, logged,
                   transformVars>>

\* line 210 with the first batch left out
IsLogBatchSkipFirst(b) == b # 0 /\ b % LogEvery = 0

\* the condition of line 210
IsLogBatch(b) == b % LogEvery = 0

\* lines 210-220: the loss line is printed, then the real batch and the
\* fixed-noise sample are saved
PeriodicOutput ==
    /\ pc = "periodic"
    /\ IsLogBatch(i)
    /\ logged' = Append(logged, [epoch |-> epoch, i |-> i, at |-> steps])
    /\ LET r == WriteRaises(outdir) IN
        IF IsNone(r)
        THEN /\ written' = written \o
                    << Write(RealSamplesName(opt.outf)),
                       Write(FakeSamplesName(opt.outf, epoch, i)) >>
             /\ pc' = "break"
             /\ error' = error
        ELSE /\ written' = written
             /\ pc' = "failed"
             /\ error' = Raise(Get(r), 213)
    /\ UNCHANGED <<opt, parsed, outdir, mkErr, seeded, dataset, nc, dataloader, netG,
                   epoch, i, steps, output, transformVars>>

\* line 210, condition false
NoOutput ==
    /\ pc = "periodic"
    /\ ~IsLogBatch(i)
    /\ pc' = "break"
    /\ UNCHANGED <<opt, parsed, outdir, mkErr, seeded, error, dataset, nc, dataloader,
                   netG, epoch, i, steps, output, written, logged,
                   transformVars>>

\* a break that leaves the epoch without its checkpoint
DryRunBreakSkipsCheckpoint ==
    /\ pc = "break"
    /\ opt.dry_run
    /\ epoch' = epoch + 1
    /\ pc' = "epoch"
    /\ UNCHANGED <<opt, parsed, outdir, mkErr, seeded, error, dataset, nc, dataloader,
                   netG, i, steps, output, written, logged,
                   transformVars>>

\* lines 222-223
DryRunBreak ==
    /\ pc = "break"
    /\ opt.dry_run
    /\ pc' = "checkpoint"
    /\ UNCHANGED <<opt, parsed, outdir, mkErr, seeded, error, dataset, nc, dataloader,
                   netG, epoch, i, steps, output, written, logged,
                   transformVars>>

\* line 222 false: enumerate() moves to the next batch
NextBatch ==
    /\ pc = "break"
    /\ ~opt.dry_run
    /\ i' = i + 1
    /\ pc' = "batch"
    /\ UNCHANGED <<opt, parsed, outdir, mkErr, seeded, error, dataset, nc, dataloader,
                   netG, epoch, steps, output, written, logged,
                   transformVars>>

\* line 234, then the next epoch
Checkpoint ==
    /\ pc = "checkpoint"
    /\ LET r == WriteRaises(outdir) IN
        IF IsNone(r)
        THEN /\ written' = Append(written, Write(CheckpointName(opt.outf, epoch)))
             /\ epoch' = epoch + 1
             /\ pc' = "epoch"
             /\ error' = error
        ELSE /\ written' = written
             /\ epoch' = epoch
             /\ pc' = "failed"
             /\ error' = Raise(Get(r), 234)
    /\ UNCHANGED <<opt, parsed, outdir, mkErr, seeded, dataset, nc, dataloader, netG,
                   i, steps, output, logged, transformVars>>

-----------------------------------------------------------------------------
(* The run as a whole *)

\* the state once parse_args has returned (line 42)
Init ==
    /\ pc = "makedirs"
    /\ opt \in Opts
    /\ parsed = opt
    /\ outdir \in OutdirStates
    /\ mkErr = NONE
    /\ seeded = NONE
    /\ error = NONE
    /\ dataset = NONE
    /\ nc = 0
    /\ dataloader = NONE
    /\ netG = NONE
    /\ epoch = 0
    /\ i = 0
    /\ steps = 0
    /\ output = <<>>
    /\ written = <<>>
    /\ logged = <<>>
    /\ tpc = "off"
    /\ input = <<>>
    /\ r2 = <<>>
    /\ rand = <<>>
    /\ tie = <<>>
    /\ picked = <<>>
    /\ means = <<>>
    /\ order = <<>>
    /\ t = <<>>

Next ==
    \/ Makedirs
    \/ Seed
    \/ CheckDataroot
    \/ SelectDataset
    \/ BuildLoader
    \/ BuildModel
    \/ DryRunOverride
    \/ EpochStart
    \/ LoopEnd
    \/ TrainBatch
    \/ LoaderExhausted
    \/ PeriodicOutput
    \/ NoOutput
    \/ DryRunBreak
    \/ NextBatch
    \/ Checkpoint

Spec == Init /\ [][Next]_vars

-----------------------------------------------------------------------------
(* The noise/target transform on the values of one image: lines 184-186, 199-203 *)

MaxCoef == 1

MaxShift == 1

\* 0-based vectors are functions on 0..n-1
Size(v) == Cardinality(DOMAIN v)

RECURSIVE SumRange(_, _, _)
\* v[lo] + ... + v[hi - 1]
SumRange(v, lo, hi) ==
    IF lo >= hi THEN 0
    ELSE IF hi = lo + 1 THEN v[lo]
    ELSE LET mid == (lo + hi) \div 2 IN SumRange(v, lo, mid) + SumRange(v, mid, hi)

\* the 8-bit level of pixel (c, h, w) of a synthetic image
Pixel(pat, c, h, w) == (pat.a * h * w + pat.b * (h + c) + w) % pat.levels

ImagePatterns == [a : 0..MaxCoef, b : 0..MaxCoef, levels : {5, 256}]

\* data[0][b] for one b: an image of the given (C, H, W) shape
Image(pat, shape) ==
    [c \in 0..(shape[1] - 1) |->
        [h \in 0..(shape[2] - 1) |->
            [w \in 0..(shape[3] - 1) |-> Pixel(pat, c, h, w)]]]

\* input.flatten(1) for one image: row-major over (C, H, W)
Flatten(img, shape) ==
    [k \in 0..(Product(shape) - 1) |->
        img[k \div (shape[2] * shape[3])][(k \div shape[3]) % shape[2]][k % shape[3]]]

\* torch.randperm(n), over the affine permutations k -> (mul*k + shift) mod n
\* with mul coprime to n
Randperm(n, mul, shift) == [k \in 0..(n - 1) |-> (mul * k + shift) % n]

PermMultipliers == {5, 255}

\* torch.rand([n]): n distinct levels of [0, 1), in seventeenths
Rand(n, mul, shift) == [k \in 0..(n - 1) |-> (mul * k + shift) % 17]

RandMultipliers == {1, 3}

\* v[idx]: indexing a vector by an index vector; NONE when an index is out of
\* range (IndexError)
Index(v, idx) ==
    IF \E j \in DOMAIN idx : idx[j] >= Size(v)
    THEN NONE
    ELSE Some([j \in DOMAIN idx |-> v[idx[j]]])

\* the reduction with each chunk one entry short
ReduceMeanShort(v, isz) ==
    [n \in 0..((Size(v) \div isz) - 1) |->
        <<SumRange(v, n * isz, n * isz + isz - 1), isz>>]

\* ein.reduce(t, "b (n i) -> b n", "mean", i=isz): entry n is the mean of the
\* entries n*isz .. n*isz + isz - 1, kept as the fraction <<sum, isz>>
ReduceMean(v, isz) ==
    [n \in 0..((Size(v) \div isz) - 1) |-> <<SumRange(v, n * isz, n * isz + isz), isz>>]

FracLess(x, y) == x[1] * y[2] < y[1] * x[2]

FracEq(x, y) == x[1] * y[2] = y[1] * x[2]

\* whether slot u comes before slot s in the ascending sort; the sort is not
\* stable, equal keys come in the order tb gives them
SortsBefore(v, tb, u, s) ==
    \/ FracLess(v[u], v[s])
    \/ FracEq(v[u], v[s]) /\ tb[u] < tb[s]

\* t.argsort(1): entry k is the slot that holds the k-th smallest value
Argsort(v, tb) ==
    [k \in DOMAIN v |->
        CHOOSE s \in DOMAIN v :
            Cardinality({u \in DOMAIN v : SortsBefore(v, tb, u, s)}) = k]

\* the table read at each slot's rank: entry j is table[k] for the k with
\* idx[k] = j
LookupByRank(table, idx) ==
    [j \in DOMAIN idx |-> table[CHOOSE k \in DOMAIN idx : idx[k] = j]]

\* rand[t]
Lookup(table, idx) == [k \in DOMAIN idx |-> table[idx[k]]]

\* the orders the sort may give to equal keys: as they stand, or reversed
TieBreaks(n) == { [k \in 0..(n - 1) |-> k], [k \in 0..(n - 1) |-> (n - 1) - k] }

\* line 200
TIndex ==
    /\ tpc = "index"
    /\ LET r == Index(Flatten(input, InputShape(opt, nc)), r2) IN
        IF IsNone(r)
        THEN /\ tpc' = "failed"
             /\ pc' = "failed"
             /\ error' = Raise("IndexError", 200)
             /\ picked' = picked
        ELSE /\ tpc' = "reduce"
             /\ picked' = Get(r)
             /\ UNCHANGED <<pc, error>>
    /\ UNCHANGED <<opt, parsed, outdir, mkErr, seeded, dataset, nc, dataloader, netG,
                   epoch, i, steps, output, written, logged, input, r2, rand, tie,
                   means, order, t>>

\* line 201
TReduce ==
    /\ tpc = "reduce"
    /\ means' = ReduceMean(picked, z_res ^ 2)
    /\ tpc' = "argsort"
    /\ UNCHANGED <<runVars, input, r2, rand, tie, picked, order, t>>

\* line 202
TArgsort ==
    /\ tpc = "argsort"
    /\ order' = Argsort(means, tie)
    /\ tpc' = "lookup"
    /\ UNCHANGED <<runVars, input, r2, rand, tie, picked, means, t>>

\* line 203
TLookup ==
    /\ tpc = "lookup"
    /\ t' = Lookup(rand, order)
    /\ tpc' = "done"
    /\ UNCHANGED <<runVars, input, r2, rand, tie, picked, means, order>>

TransformImageSizes == {8, 16}

\* the runs whose first batch is followed value by value
TransformOpts ==
    [ dataset    : {mnist, fake},
      dataroot   : {Some("data")},
      batchSize  : {BatchSizeDefault},
      imageSize  : TransformImageSizes,
      ngf        : {1},
      niter      : {1},
      dry_run    : {FALSE},
      outf       : {"out"},
      manualSeed : {Some(7)},
      workers    : {2},
      lr         : {"0.0002"},
      beta1      : {"0.5"},
      cuda       : {FALSE},
      ngpu       : {1},
      netG       : {""},
      classes    : {"bedroom"} ]

\* the script at line 199 of its first batch, with the artifacts of lines
\* 185-186 drawn and one image of the batch at hand
InitTransform ==
    /\ pc = "transform"
    /\ opt \in TransformOpts
    /\ parsed = opt
    /\ outdir = "dir"
    /\ mkErr = NONE
    /\ seeded = opt.manualSeed
    /\ error = NONE
    /\ nc = Channels(SelectBranch(opt.dataset))
    /\ dataset = Some([class |-> DatasetClass(SelectBranch(opt.dataset)),
                       len |-> FakeDataSize])
    /\ dataloader = Some(NumBatches(FakeDataSize, opt.batchSize))
    /\ netG = Some(Generator(opt.ngf, nc))
    /\ epoch = 0
    /\ i = 0
    /\ steps = 0
    /\ output = <<>>
    /\ written = <<>>
    /\ logged = <<>>
    /\ tpc = "index"
    /\ \E pat \in ImagePatterns : input = Image(pat, InputShape(opt, nc))
    /\ \E mul \in PermMultipliers, shift \in 0..MaxShift :
          r2 = Randperm((z_res ^ 2) ^ 2, mul, shift)
    /\ \E mul \in RandMultipliers : rand = Rand(z_res ^ 2, mul, 1)
    /\ tie \in TieBreaks(z_res ^ 2)
    /\ picked = <<>>
    /\ means = <<>>
    /\ order = <<>>
    /\ t = <<>>

NextTransform ==
    \/ TIndex
    \/ TReduce
    \/ TArgsort
    \/ TLookup

SpecTransform == InitTransform /\ [][NextTransform]_vars

-----------------------------------------------------------------------------
(* Properties of the run (Spec) *)

IsCheckpoint(w) == w.name[2] = "/netG_epoch_"

IsRealSample(w) == w.name[2] = "/real_samples.png"

IsFakeSample(w) == w.name[2] = "/fake_samples_epoch_"

Checkpoints == SelectSeq(written, IsCheckpoint)

\* the batches an epoch processes: all the loader yields, or one in a dry run
BatchesPerEpoch == IF opt.dry_run THEN 1 ELSE Get(dataloader)

BeforeDatasetSelection == {"makedirs", "seed", "check_dataroot", "select_dataset"}

NothingBuilt ==
    /\ dataset = NONE
    /\ dataloader = NONE
    /\ netG = NONE
    /\ steps = 0
    /\ output = <<>>
    /\ written = <<>>

\* a run in which no statement can raise: a recognised kind with its data, a
\* non-empty dataset, images of the generator's output size, a usable directory
NothingToRaise ==
    /\ SelectBranch(parsed.dataset) # "none"
    /\ ~DatarootMissing(parsed)
    /\ parsed.imageSize = 64
    /\ outdir = IF pc = "makedirs" /\ outdir = "absent" THEN "absent" ELSE "dir"
    /\ (dataset # NONE => Get(dataset).len > 0)

\* C1: with --dry-run, whatever --niter says, the run never processes a second
\* batch or starts a second epoch; when it ends it has taken exactly one
\* optimizer step in epoch 0 and has written, in this order, real_samples.png,
\* fake_samples_epoch_000_000.png and the checkpoint of epoch 0, and nothing
\* else; and when no statement can raise it has no error.
C1_DryRunSingleBatch ==
    parsed.dry_run =>
        /\ steps <= 1
        /\ epoch <= 1
        /\ i = 0
        /\ pc = "done" =>
            /\ error = NONE
            /\ Get(dataloader) >= 1
            /\ steps = 1
            /\ epoch = 1
            /\ Len(output) = Len(Get(netG))
            /\ written =
                << [name |-> <<"out", "/real_samples.png">>,
                    epoch |-> 0, i |-> 0, at |-> 1],
                   [name |-> <<"out", "/fake_samples_epoch_", "0", "0", "0", "_",
                               "0", "0", "0", ".png">>,
                    epoch |-> 0, i |-> 0, at |-> 1],
                   [name |-> <<"out", "/netG_epoch_", "0", ".pth">>,
                    epoch |-> 0, i |-> 0, at |-> 1] >>
        /\ NothingToRaise => error = NONE /\ ~Failed

C1_Witness ==
    /\ pc = "done"
    /\ parsed.dry_run
    /\ parsed.niter = 2
    /\ Get(dataloader) > 1
    /\ Len(written) = 3

\* C2 as claimed: every kind other than "fake" started without a data path
\* ends in the configuration error of line 62, before anything is built, and
\* "fake" without a data path does not.
C2_AsClaimed ==
    IsNone(parsed.dataroot) =>
        /\ parsed.dataset # fake /\ pc \notin {"makedirs", "seed", "check_dataroot"}
              => Failed /\ error = Raise("ValueError", 62) /\ NothingBuilt
        /\ parsed.dataset = fake => error = NONE \/ Get(error).type # "ValueError"

\* C2 amended: the kinds that end in the configuration error are those whose
\* lower-cased form is not "fake"; a kind whose lower-cased form is "fake"
\* (such as "Fake") never raises it.
C2_DatarootRequired ==
    IsNone(parsed.dataroot) =>
        /\ lower(parsed.dataset) # fake /\ pc \notin {"makedirs", "seed", "check_dataroot"}
              => Failed /\ error = Raise("ValueError", 62) /\ NothingBuilt
        /\ lower(parsed.dataset) = fake => error = NONE \/ Get(error).type # "ValueError"

C2_Witness ==
    /\ Failed
    /\ error = Raise("ValueError", 62)
    /\ parsed.dataset = <<"M","N","I","S","T">>

\* C3: the checkpoints written so far are exactly those of the epochs that
\* have ended, netG_epoch_0 .. netG_epoch_<epoch-1> in this order, each written
\* after the last optimizer step of its epoch and before any write or step of
\* the next one; the loop only runs epochs below opt.niter and the run ends
\* with opt.niter checkpoints.
C3_CheckpointPerEpoch ==
    /\ Len(Checkpoints) = epoch
    /\ \A k \in 1..Len(Checkpoints) :
        /\ Checkpoints[k].name = <<"out", "/netG_epoch_", DigitChars[k], ".pth">>
        /\ Checkpoints[k].epoch = k - 1
        /\ Checkpoints[k].at = k * BatchesPerEpoch
    /\ \A a, b \in 1..Len(written) :
        a < b => /\ written[a].epoch <= written[b].epoch
                 /\ written[a].at <= written[b].at
                 /\ IsCheckpoint(written[a]) =>
                       /\ written[a].epoch < written[b].epoch
                       /\ written[a].at < written[b].at
    /\ pc \in {"batch", "periodic", "break", "checkpoint"} => epoch < opt.niter
    /\ pc = "done" => epoch = opt.niter /\ Len(Checkpoints) = opt.niter

C3_Witness ==
    /\ pc = "done"
    /\ ~opt.dry_run
    /\ Len(Checkpoints) = 2
    /\ Get(dataloader) > 100
    /\ Checkpoints[2].at = 2 * Get(dataloader)

\* the name the sample of batch b of epoch e is to have (e < 10, b a multiple
\* of 100 below 1000)
ExpectedFakeName(e, b) ==
    <<"out", "/fake_samples_epoch_", "0", "0", DigitChars[e + 1], "_",
      DigitChars[(b \div 100) + 1], "0", "0", ".png">>

\* whether the loop has gone past the periodic output of batch b of epoch e
PastOutput(e, b) ==
    /\ b < BatchesPerEpoch
    /\ \/ e < epoch
       \/ /\ e = epoch
          /\ pc \in {"batch", "periodic", "break", "checkpoint", "failed"}
          /\ b < i \/ (b = i /\ pc \in {"break", "checkpoint"})

\* C4: every loss line and sample write is for a batch index that is a
\* multiple of 100 and is made right after that batch's optimizer step, the
\* loss line first, one per pair of sample writes, then the real batch
\* (always to real_samples.png) and the fixed-noise sample next (to the name of
\* its epoch and batch); every batch with such an index that the loop has gone
\* past has its two writes; no two fixed-noise samples share a name.
C4_PeriodicOutput ==
    /\ \A k \in 1..Len(written) :
        LET w == written[k] IN
        ~IsCheckpoint(w) =>
            /\ w.i % 100 = 0
            /\ w.at = w.epoch * BatchesPerEpoch + w.i + 1
            /\ IsRealSample(w) \/ IsFakeSample(w)
            /\ IsRealSample(w) =>
                /\ w.name = <<"out", "/real_samples.png">>
                /\ k < Len(written)
                /\ IsFakeSample(written[k + 1])
                /\ written[k + 1].epoch = w.epoch /\ written[k + 1].i = w.i
            /\ IsFakeSample(w) =>
                /\ w.name = ExpectedFakeName(w.epoch, w.i)
                /\ k > 1
                /\ IsRealSample(written[k - 1])
    /\ dataloader # NONE =>
        \A e \in 0..epoch, m \in 0..((BatchesPerEpoch - 1) \div 100) :
            PastOutput(e, 100 * m) =>
                \E k \in 1..Len(written) :
                    /\ IsFakeSample(written[k])
                    /\ written[k].epoch = e
                    /\ written[k].i = 100 * m
    /\ \A j, k \in 1..Len(written) :
        IsFakeSample(written[j]) /\ IsFakeSample(written[k]) /\ j # k
            => written[j].name # written[k].name
    /\ LET fakes == SelectSeq(written, IsFakeSample) IN
        /\ Len(logged) = Len(fakes) +
                (IF Failed /\ Get(error).line = 213 THEN 1 ELSE 0)
        /\ \A k \in 1..Len(fakes) :
            /\ logged[k].epoch = fakes[k].epoch
            /\ logged[k].i = fakes[k].i
            /\ logged[k].at = fakes[k].at
        /\ \A k \in 1..Len(logged) : logged[k].i % 100 = 0

C4_Witness ==
    /\ \E k \in 1..Len(written) :
          IsFakeSample(written[k]) /\ written[k].epoch = 1 /\ written[k].i = 200
    /\ Cardinality({k \in 1..Len(written) : IsRealSample(written[k])}) > 3
    /\ pc = "done"

\* C5 as claimed: an unrecognised kind, with or without a data path, builds
\* nothing and stops at the dataset assertion of line 109.
C5_AsClaimed ==
    parsed.dataset \notin RecognisedKinds =>
        /\ NothingBuilt
        /\ pc \in BeforeDatasetSelection \cup {"failed"}
        /\ Failed => Get(error).line = 109

\* C5 amended: an unrecognised kind builds nothing and stops before the data
\* loader: with the configuration error of line 62 when no data path is given
\* and the kind does not lower-case to "fake", and otherwise at `assert
\* dataset` (line 109), as a NameError since no branch bound the name.
C5_UnrecognisedKind ==
    parsed.dataset \notin RecognisedKinds =>
        /\ NothingBuilt
        /\ pc \in BeforeDatasetSelection \cup {"failed"}
        /\ Failed =>
            error = IF IsNone(parsed.dataroot) /\ lower(parsed.dataset) # fake
                    THEN Raise("ValueError", 62)
                    ELSE Raise("NameError", 109)

C5_Witness ==
    /\ Failed
    /\ error = Raise("NameError", 109)
    /\ parsed.dataset = <<"F","a","k","e">>
    /\ IsNone(parsed.dataroot)

\* C6: a failure of os.makedirs other than "already exists" ends the run at
\* line 46, before the seeding.
C6_OnlyExistsSuppressed ==
    mkErr # NONE /\ Get(mkErr) # "FileExistsError" =>
        /\ Failed
        /\ error = Raise(Get(mkErr), 46)
        /\ seeded = NONE
        /\ NothingBuilt

\* C7: in every forward pass no layer rejects its input, the spatial size goes
\* 1, 4, 8, 16, 32, 64 through the five transposed convolutions, and the image
\* that comes out is nc x 64 x 64, whatever ngf, nc and imageSize are.
C7_GeneratorOutput64 ==
    output # <<>> =>
        /\ Len(output) = 15
        /\ \A k \in 1..Len(output) : ~IsNone(output[k])
        /\ \A d \in {2, 3} :
            << Get(output[1])[d], Get(output[2])[d], Get(output[5])[d],
               Get(output[8])[d], Get(output[11])[d], Get(output[14])[d] >>
              = <<1, 4, 8, 16, 32, 64>>
        /\ Get(output[15]) = <<nc, 64, 64>>

C7_Witness ==
    /\ output # <<>>
    /\ opt.imageSize = 32
    /\ opt.ngf = 2
    /\ nc = 1
    /\ Get(output[15]) = <<1, 64, 64>>

\* C10 as claimed: after the parse no option ever changes.
C10_AsClaimed == opt = parsed

\* C10 amended: after the parse the only options that change are manualSeed,
\* set once to an integer of 1..10000 when none was given, and niter, set to 1
\* in a dry run; a run with --manualSeed and without --dry-run changes none.
C10_OnlySeedAndNiterChange ==
    /\ \A f \in DOMAIN opt \ {"manualSeed", "niter"} : opt[f] = parsed[f]
    /\ opt.manualSeed # parsed.manualSeed =>
        /\ IsNone(parsed.manualSeed)
        /\ Get(opt.manualSeed) \in 1..10000
        /\ seeded = opt.manualSeed
    /\ ~IsNone(parsed.manualSeed) => opt.manualSeed = parsed.manualSeed
    /\ opt.niter # parsed.niter => parsed.dry_run /\ opt.niter = 1
    /\ ~parsed.dry_run => opt.niter = parsed.niter

C10_Witness ==
    /\ pc = "done"
    /\ opt.niter # parsed.niter
    /\ opt.manualSeed # parsed.manualSeed

-----------------------------------------------------------------------------
(* Properties of the transform (SpecTransform) *)

AfterIndex == {"reduce", "argsort", "lookup", "done"}

AfterReduce == {"argsort", "lookup", "done"}

FlatInput == Flatten(input, InputShape(opt, nc))

\* the sort rank of slot j: the number of slots that sort before it, which is
\* its place in the sorted order
RankOf(j) == CHOOSE k \in DOMAIN order : order[k] = j

\* C8 as claimed: the generator input at slot j is the table value at the
\* sort rank of slot j's chunk mean.
C8_AsClaimed ==
    tpc = "done" => \A j \in DOMAIN t : t[j] = rand[RankOf(j)]

\* C8 amended: the generator input at slot k is the table value at the index
\* of the slot that holds the k-th smallest chunk mean (the argsort index, not
\* the rank): order is a permutation of the slots that puts the means in
\* ascending order, and t[k] = rand[order[k]].
C8_LookupByArgsort ==
    tpc = "done" =>
        /\ DOMAIN order = 0..15
        /\ {order[k] : k \in DOMAIN order} = 0..15
        /\ \A k \in 0..14 : ~FracLess(means[order[k + 1]], means[order[k]])
        /\ DOMAIN t = 0..15
        /\ \A k \in DOMAIN t : t[k] = rand[order[k]]

C8_Witness ==
    /\ tpc = "done"
    /\ \E k \in DOMAIN order : order[order[k]] # k
    /\ \E j \in DOMAIN t : t[j] # rand[RankOf(j)]

\* C9 as claimed: every entry of the flattened image is picked exactly once by
\* the permutation, and there are 16 chunk means.
C9_AsClaimed ==
    /\ tpc \in AfterIndex =>
        \A k \in DOMAIN FlatInput : Cardinality({j \in DOMAIN r2 : r2[j] = k}) = 1
    /\ tpc \in AfterReduce => Size(means) = 16

\* C9 amended: an image of fewer than 256 entries fails at line 200; for any
\* other image the permutation picks the first 256 entries of the flattened
\* image, each exactly once, and no entry beyond them; the 256 picked entries
\* are split into 16 chunks of 16, each entry counted in exactly one chunk
\* mean, and the number of chunk means is the generator's input width, 16.
C9_FirstEntriesPermuted ==
    /\ tpc = "failed" => Size(FlatInput) < 256 /\ error = Raise("IndexError", 200)
    /\ tpc \in AfterIndex =>
        /\ Size(FlatInput) >= 256
        /\ DOMAIN picked = 0..255
        /\ \A k \in 0..255 : Cardinality({j \in DOMAIN picked : r2[j] = k}) = 1
        /\ \A j \in DOMAIN picked : r2[j] \in 0..255 /\ picked[j] = FlatInput[r2[j]]
    /\ tpc \in AfterReduce =>
        /\ DOMAIN means = 0..15
        /\ Size(means) = Get(netG)[1].to[1]
        /\ \A n \in DOMAIN means :
            /\ means[n][2] = 16
            /\ means[n][1] = SumRange(picked, 16 * n, 16 * n + 16)
        /\ SumRange([n \in DOMAIN means |-> means[n][1]], 0, 16)
             = SumRange(FlatInput, 0, 256)

C9_Witness ==
    /\ tpc = "done"
    /\ nc = 3
    /\ Size(FlatInput) = 768
    /\ \E k \in DOMAIN FlatInput : \A j \in DOMAIN r2 : r2[j] # k
    /\ means # [n \in 0..15 |-> <<0, 16>>]

====
